---- MODULE Spec2Model ----
(***************************************************************************)
(* Model of the ring-style adapter (src/app.py): the /adapter handler,     *)
(* its validation step (_validate) and the backend dispatcher              *)
(* (_call_backend) with its create -> poll protocol, and the repository's  *)
(* own backend (src/main.py) as one of the backends the adapter talks to.  *)
(*                                                                         *)
(* Time is counted in integer milliseconds.  Python's None is modelled by  *)
(* a value of the same shape as the values it stands in for.               *)
(***************************************************************************)
EXTENDS Integers, Sequences, FiniteSets, TLC

VARIABLES
    pc,             \* position of the /adapter handler
    net,            \* "up" | "down": whether the backend host can be reached;
                    \* "mock": the backend is src/main.py
    ACCEPT_PARTIAL, \* app.py:33, strict mode is ACCEPT_PARTIAL = FALSE
    mapping,        \* the loaded catalog (class Mapping)
    payload,        \* the client's JSON body
    normalized,     \* _validate: list of {key, question_text, answer_text}
    seen,           \* _validate: keys that got an entry
    missing,        \* _validate: must-have keys not in seen
    verror,         \* the ValueError _validate raised ("" if none)
    user,           \* _validate: the user fields
    effective_result_key, \* the key _xml_superset generated
    xml_body,       \* the document _xml_superset built: children of <Request>
    clock,          \* time.time(), in ms
    deadline,       \* poll deadline, in ms
    path,           \* "xml_first_try" | "json_fallback"
    xml_first_try,  \* diagnostics of the XML create attempt
    retries,        \* urllib3 Retry: re-sends left in the running HTTP call
    xmlSends,       \* create requests put on the wire in XML
    jsonSends,      \* create requests put on the wire as JSON
    create_json,    \* the parsed create response the dispatcher works on
    rid,            \* _extract_response_id's result ("" for None)
    last,           \* the poll loop's `last`
    resp,           \* the most recent fetch response received
    wait,           \* argument of the most recent time.sleep, in ms
    fetchIds,       \* response_id parameters used by the fetch GETs
    result,         \* what _call_backend returned (or that it raised)
    http            \* the /adapter response: status code and body status

vars == <<pc, net, ACCEPT_PARTIAL, mapping, payload, normalized, seen, missing,
          verror, user, effective_result_key, xml_body, clock, deadline, path, xml_first_try, retries, xmlSends,
          jsonSends, create_json, rid, last, resp, wait, fetchIds, result, http>>

valVars == <<normalized, seen, missing, verror, user, effective_result_key, xml_body>>
cfgVars == <<net, ACCEPT_PARTIAL, mapping, payload>>
pollVars == <<clock, deadline, last, resp, wait, fetchIds>>
createVars == <<path, xml_first_try, retries, xmlSends, jsonSends, create_json, rid>>

(***************************************************************************)
(* Configuration and literals of the dispatcher                            *)
(***************************************************************************)
\* BACKEND_TIMEOUT_SEC of the environment, in seconds (the default is 25)
BACKEND_TIMEOUT_S == 2
\* Retry(total=3): re-sends urllib3 adds to one HTTP call
RetryTotal == 3
\* Retry(status_forcelist=...)
StatusForcelist == {429, 500, 502, 503, 504}
\* time.sleep lower clamp 0.2, upper clamp 5.0 and default 0.7, in ms
MinWaitMs == 200
MaxWaitMs == 5000
DefaultWaitMs == 700
\* time.sleep(0.7) after a fetch answered >= 400
ErrorWaitMs == 700
\* durations one fetch exchange may take, in ms
Latencies == {0}

Max(a, b) == IF a >= b THEN a ELSE b
Min(a, b) == IF a <= b THEN a ELSE b

(***************************************************************************)
(* Strings: str.lower(), str.strip() and the `in` test                      *)
(***************************************************************************)
UpperChars == "ABCDEFGHIJKLMNOPQRSTUVWXYZ"
LowerChars == "abcdefghijklmnopqrstuvwxyz"

\* the lower-case letter of every upper-case letter
LowerOf ==
    [c \in {SubSeq(UpperChars, i, i) : i \in 1..Len(UpperChars)} |->
        LET i == CHOOSE j \in 1..Len(UpperChars) : SubSeq(UpperChars, j, j) = c
        IN  SubSeq(LowerChars, i, i)]

LowerChar(c) == IF c \in DOMAIN LowerOf THEN LowerOf[c] ELSE c

RECURSIVE Lower(_)
\* str.lower()
Lower(s) == IF s = "" THEN "" ELSE LowerChar(SubSeq(s, 1, 1)) \o Lower(SubSeq(s, 2, Len(s)))

RECURSIVE LStrip(_)
LStrip(s) == IF s # "" /\ SubSeq(s, 1, 1) = " " THEN LStrip(SubSeq(s, 2, Len(s))) ELSE s

RECURSIVE RStrip(_)
RStrip(s) ==
    IF s # "" /\ SubSeq(s, Len(s), Len(s)) = " " THEN RStrip(SubSeq(s, 1, Len(s) - 1)) ELSE s

\* str.strip()
Strip(s) == RStrip(LStrip(s))

\* w in s
Contains(s, w) == \E i \in 1..(Len(s) - Len(w) + 1) : SubSeq(s, i, i + Len(w) - 1) = w

(***************************************************************************)
(* HTTP responses.  A body is either text that is not JSON or a JSON       *)
(* object: its status/Status values, the keys among data/result it has     *)
(* together with the flags among done/ready/is_ready that are True, its    *)
(* id-bearing entries and its poll-interval entries.                       *)
(***************************************************************************)
NoBody == [json |-> FALSE, status |-> "", Status |-> "", keys |-> {}, ids |-> {}, hints |-> {}]
TextBody == [NoBody EXCEPT !.status = "<html>"]
Json(st, St, ks, is, hs) ==
    [json |-> TRUE, status |-> st, Status |-> St, keys |-> ks, ids |-> is, hints |-> hs]

\* a dict entry lookup on the sets of [k, v] entries used for ids and hints
HasKey(d, k) == \E e \in d : e.k = k
Get(d, k) == CHOOSE e \in d : e.k = k

\* Retry-After header: absent, an integer number of seconds, or unparsable
NoRA == [present |-> FALSE, ok |-> FALSE, sec |-> 0]
RA(n) == [present |-> TRUE, ok |-> TRUE, sec |-> n]
BadRA == [present |-> TRUE, ok |-> FALSE, sec |-> 0]

NoResp == [code |-> 0, ra |-> NoRA, body |-> NoBody]
NoLast == [status_code |-> 0, body |-> NoBody]

\* a poll-interval entry of a body: seconds-valued keys carry tenths of a
\* second (15 is 1.5), millisecond-valued keys carry milliseconds
Hint(k, n) == [k |-> k, ok |-> TRUE, v |-> n]
BadHint(k) == [k |-> k, ok |-> FALSE, v |-> 0]
IdEntry(k, s) == [k |-> k, v |-> s]

SecHintKeys == <<"retryAfter", "retry_after", "pollIntervalSec", "poll_interval_sec">>
MsHintKeys == <<"pollInMs", "poll_in_ms">>
RECURSIVE FirstHint(_, _, _)
\* the value, in ms, of the first entry under `keys` that is present and
\* parses as a number: <<ms>>, or <<>> when there is none
FirstHint(body, keys, scale) ==
    IF keys = <<>> THEN <<>>
    ELSE IF HasKey(body.hints, Head(keys)) /\ Get(body.hints, Head(keys)).ok
         THEN <<Get(body.hints, Head(keys)).v * scale>>
         ELSE FirstHint(body, Tail(keys), scale)

\* the lower clamp left out
ClampNoFloor(ms) == Min(ms, MaxWaitMs)

Clamp(ms) == Max(MinWaitMs, Min(ms, MaxWaitMs))

\* the millisecond entries read as seconds
GetRetryAfterMsAsSeconds(r, withBody) ==
    IF r.ra.present /\ r.ra.ok THEN Clamp(r.ra.sec * 1000)
    ELSE IF withBody /\ r.body.json /\ r.body.hints # {}
         THEN IF FirstHint(r.body, SecHintKeys, 100) # <<>>
              THEN Clamp(FirstHint(r.body, SecHintKeys, 100)[1])
              ELSE IF FirstHint(r.body, MsHintKeys, 1000) # <<>>
                   THEN Clamp(FirstHint(r.body, MsHintKeys, 1000)[1])
                   ELSE DefaultWaitMs
         ELSE DefaultWaitMs

\* _get_retry_after(resp, body_json), in ms; withBody = FALSE is body_json None
_get_retry_after(r, withBody) ==
    IF r.ra.present /\ r.ra.ok THEN Clamp(r.ra.sec * 1000)
    ELSE IF withBody /\ r.body.json /\ r.body.hints # {}
         THEN IF FirstHint(r.body, SecHintKeys, 100) # <<>>
              THEN Clamp(FirstHint(r.body, SecHintKeys, 100)[1])
              ELSE IF FirstHint(r.body, MsHintKeys, 1) # <<>>
                   THEN Clamp(FirstHint(r.body, MsHintKeys, 1)[1])
                   ELSE DefaultWaitMs
         ELSE DefaultWaitMs

DoneStatuses == {"done", "completed", "ok", "success", "ready", "finished"}

StatusOf(d) == Lower(IF d.status # "" THEN d.status ELSE d.Status)

\* _is_final of the xml_first_try branch
_is_final(d) ==
    \/ "data" \in d.keys \/ "result" \in d.keys
    \/ StatusOf(d) \in DoneStatuses
    \/ "done" \in d.keys \/ "ready" \in d.keys \/ "is_ready" \in d.keys

\* _is_final2 of the json_fallback branch
_is_final2(d) ==
    \/ "data" \in d.keys \/ "result" \in d.keys
    \/ StatusOf(d) \in DoneStatuses
    \/ "done" \in d.keys \/ "ready" \in d.keys \/ "is_ready" \in d.keys

\* the `result` key left out of the terminal test
XmlPollTerminalNoResult(d) ==
    \/ "data" \in d.keys
    \/ StatusOf(d) \in DoneStatuses
    \/ "done" \in d.keys

\* the terminal test of the xml poll loop
XmlPollTerminal(d) ==
    \/ "data" \in d.keys \/ "result" \in d.keys
    \/ StatusOf(d) \in DoneStatuses
    \/ "done" \in d.keys

\* the terminal test of the json-fallback poll loop
JsonPollTerminal(d) ==
    \/ "data" \in d.keys \/ "result" \in d.keys
    \/ StatusOf(d) \in DoneStatuses
    \/ "done" \in d.keys

IdKeys == <<"response_id", "ResponseId", "responseId", "id", "Id", "code", "Code",
            "requestId", "request_id">>

RECURSIVE FirstId(_, _)
FirstId(d, keys) ==
    IF keys = <<>> THEN ""
    ELSE IF HasKey(d.ids, Head(keys)) /\ Strip(Get(d.ids, Head(keys)).v) # ""
         THEN Strip(Get(d.ids, Head(keys)).v)
         ELSE FirstId(d, Tail(keys))

\* only the response_id key looked at
ExtractResponseIdOnly(d) ==
    IF d.json /\ HasKey(d.ids, "response_id") THEN Strip(Get(d.ids, "response_id").v) ELSE ""

\* _extract_response_id(create_json, headers); "" is None
_extract_response_id(d) == IF d.json THEN FirstId(d, IdKeys) ELSE ""

(***************************************************************************)
(* The catalog (class Mapping) and _validate                               *)
(***************************************************************************)
\* longest questionAnswers list of a payload
MaxItems == 2

\* Mapping.questions, in the order of the configuration file
Questions ==
    << [key |-> "q1_purchasing_for", canonical_label |-> "Who are you purchasing for?",
        labels |-> <<"who", "Purchasing For">>, options |-> <<"Self", "Others">>],
       [key |-> "q2_gender", canonical_label |-> "Gender",
        labels |-> <<"sex">>, options |-> <<"Male", "Female">>],
       [key |-> "q4_occasion", canonical_label |-> "Occasion",
        labels |-> <<>>, options |-> <<>>],
       [key |-> "q8_work_dress", canonical_label |-> "Work dress",
        labels |-> <<>>,
        options |-> <<"Stylish & Chic: Designer Clothing", "Classic Formal",
                      "Smart Casuals">>] >>

MustHaveChoices == { <<"q1_purchasing_for", "q2_gender">>, <<"q9_line">> }

Range(f) == {f[i] : i \in DOMAIN f}

\* the labels Mapping.__init__ registers for one question
LabelsOf(q) == {Lower(Strip(l)) : l \in {q.canonical_label} \cup Range(q.labels)} \ {""}

\* self.label_to_key as Mapping.__init__ fills it: a later question
\* overwrites the entry of an earlier one
LabelTable(questions) ==
    [l \in UNION {LabelsOf(q) : q \in Range(questions)} |->
        LET hits == {i \in DOMAIN questions : l \in LabelsOf(questions[i])}
        IN  questions[CHOOSE i \in hits : \A j \in hits : j <= i].key]

\* Mapping.__init__ on the parsed configuration file
Mapping(raw) ==
    [allow_unknown |-> raw.allow_unknown, must_have_keys |-> raw.must_have_keys,
     questions |-> raw.questions, label_to_key |-> LabelTable(raw.questions)]

Mappings ==
    { Mapping(raw) : raw \in [allow_unknown : BOOLEAN, must_have_keys : MustHaveChoices,
                              questions : {Questions}] }

QuestionKeys(m) == {q.key : q \in Range(m.questions)}
Meta(m, k) == CHOOSE q \in Range(m.questions) : q.key = k

\* Mapping.label_to_key.get(l); "" is None
LabelToKey(m, l) == IF l \in DOMAIN m.label_to_key THEN m.label_to_key[l] ELSE ""

\* Mapping.resolve_q_key; "" is None
resolve_q_key(m, incoming) ==
    IF incoming = "" THEN ""
    ELSE IF Strip(incoming) \in QuestionKeys(m) THEN Strip(incoming)
         ELSE LabelToKey(m, Lower(Strip(incoming)))

\* Mapping.normalize_answer
normalize_answer(m, q_key, answer) ==
    LET a == Strip(answer)
        opts == IF q_key \in QuestionKeys(m) THEN Meta(m, q_key).options ELSE <<>>
        hits == {i \in DOMAIN opts : Lower(Strip(opts[i])) = Lower(a)}
    IN  IF a = "" THEN a
        ELSE IF hits = {} THEN a
        ELSE opts[CHOOSE i \in hits : \A j \in hits : j <= i]

\* has(*words) of _normalize_freeform
has(s, words) == \E w \in words : Contains(s, w)

\* the body of _normalize_freeform, s being text.strip().lower()
\* ("fiance" also stands for its accented spelling)
FreeformOn(q_key, text, s) ==
    IF text = "" THEN text
    ELSE CASE q_key = "q1_purchasing_for" ->
                IF has(s, {"myself", "for me", "self", "me only"}) THEN "Self"
                ELSE IF has(s, {"wife", "husband", "mother", "father", "friend", "gf",
                                "bf", "partner", "fiance"}) THEN "Others"
                ELSE text
           [] q_key = "q2_gender" ->
                IF has(s, {"female", "woman", "girl", "she", "her"}) THEN "Female"
                ELSE IF has(s, {"male", "man", "boy", "he", "him"}) THEN "Male"
                ELSE text
           [] q_key = "q4_occasion" ->
                IF has(s, {"wedding", "marriage", "bride", "groom", "shaadi"}) THEN "Wedding"
                ELSE IF has(s, {"engagement", "ring ceremony", "roka", "sagai"})
                     THEN "Engagement"
                ELSE IF has(s, {"daily", "office", "work", "casual"}) THEN "Daily wear"
                ELSE IF has(s, {"party", "birthday", "festival", "anniversary"}) THEN "Party"
                ELSE text
           [] q_key = "q5_purpose" ->
                IF has(s, {"daily", "routine", "office", "work"}) THEN "Daily wear"
                ELSE IF has(s, {"gift"}) THEN "Gifting"
                ELSE IF has(s, {"wedding"}) THEN "Wedding"
                ELSE IF has(s, {"engagement"}) THEN "Engagement"
                ELSE IF has(s, {"party", "occasion", "event"}) THEN "Occasional wear"
                ELSE text
           [] q_key = "q6_day" ->
                IF has(s, {"busy", "hectic", "packed", "lot of activities"})
                THEN "Busy With a lot of Activities"
                ELSE IF has(s, {"relaxed", "easy", "laid back"}) THEN "Relaxed & Easy-going"
                ELSE text
           [] q_key = "q7_weekend" ->
                IF has(s, {"social", "party", "go out", "friends", "outing"})
                THEN "Going out & socialising"
                ELSE IF has(s, {"home", "stay in", "me-time", "read", "netflix"})
                     THEN "Staying in & relaxing"
                ELSE text
           [] q_key = "q8_work_dress" ->
                IF has(s, {"designer", "chic", "stylish", "fashion"})
                THEN "Stylish & Chic: Designer Clothing"
                ELSE IF has(s, {"formal", "business", "smart"}) THEN "Classic Formal"
                ELSE IF has(s, {"casual", "comfortable", "comfy"}) THEN "Smart Casuals"
                ELSE text
           [] q_key = "q9_line" ->
                IF has(s, {"alone", "by myself", "independent"})
                THEN "You prefer to be on your own"
                ELSE IF has(s, {"chat", "talk", "friends", "social"})
                     THEN "You like to chat with people around"
                ELSE text
           [] q_key = "q10_painting" ->
                IF has(s, {"meaning", "story", "symbol", "origin", "heritage"})
                THEN "You value the meaning of the art & origin"
                ELSE IF has(s, {"color", "colour", "vibrant", "aesthetic", "look"})
                     THEN "You value the colors & aesthetics"
                ELSE text
           [] q_key = "q11_emergency" ->
                IF has(s, {"arrange care", "care for my mother", "both"})
                THEN "You will arrange care for your mother & attend the meeting"
                ELSE IF has(s, {"stay", "skip", "miss"}) /\ has(s, {"mother", "mom"})
                     THEN "You will stay with your mother"
                ELSE IF has(s, {"meeting"}) /\ has(s, {"attend"})
                     THEN "You will attend the meeting"
                ELSE text
           [] q_key = "q13_last_minute_plans" ->
                IF has(s, {"dislike", "hate", "prefer planning", "plan ahead"})
                THEN "You dislike last-minute plans & prefer planning ahead"
                ELSE IF has(s, {"spontaneous", "go with the flow", "last minute"})
                     THEN "You enjoy spontaneous last-minute plans"
                ELSE text
           [] OTHER -> text

_normalize_freeform(q_key, text) == FreeformOn(q_key, text, Lower(Strip(text)))

\* Python None among the values of an item
None == "<None>"

\* _pick_first_truthy over strings: None and blank strings are skipped
_pick_first_truthy(vals) ==
    LET ok == {i \in DOMAIN vals : vals[i] # None /\ Strip(vals[i]) # ""}
    IN  IF ok = {} THEN None ELSE vals[CHOOSE i \in ok : \A j \in ok : i <= j]

\* _flex_str over strings
_flex_str(x) == IF x = None THEN "" ELSE x

\* _extract_question_and_answer on an item {"question": ..., "answer": ...}
_extract_question_and_answer(item) ==
    << _flex_str(_pick_first_truthy(<<item.question>>)),
       _flex_str(_pick_first_truthy(<<item.answer>>)) >>

\* no positional fallback
ItemKeyNoPosition(m, item, idx) ==
    LET q_text_in == _extract_question_and_answer(item)[1]
    IN  IF q_text_in # "" THEN resolve_q_key(m, q_text_in) ELSE ""

\* the key _validate gives the item at 0-based position idx; "" is None
ItemKey(m, item, idx) ==
    LET q_text_in == _extract_question_and_answer(item)[1]
        q_key == IF q_text_in # "" THEN resolve_q_key(m, q_text_in) ELSE ""
    IN  IF q_key = "" /\ idx < Len(m.must_have_keys) THEN m.must_have_keys[idx + 1]
        ELSE q_key

\* the entry _validate appends for an item that got key q_key
Entry(m, item, q_key) ==
    [key |-> q_key,
     question_text |-> IF q_key \in QuestionKeys(m) /\ Meta(m, q_key).canonical_label # ""
                       THEN Meta(m, q_key).canonical_label ELSE q_key,
     answer_text |-> normalize_answer(m, q_key,
                        _normalize_freeform(q_key, _extract_question_and_answer(item)[2]))]

\* only the catalog's flag lets an item without a key be skipped
DropsUnknownByFlagOnly(m, partial) == m.allow_unknown

\* mapping.allow_unknown or ACCEPT_PARTIAL: an item without a key is skipped
DropsUnknown(m, partial) == m.allow_unknown \/ partial

RECURSIVE ValidateLoop(_, _, _, _, _)
\* the for loop of _validate from position idx on; acc carries normalized,
\* seen and the raised error ("" while none)
ValidateLoop(m, partial, items, idx, acc) ==
    IF idx >= Len(items) THEN acc
    ELSE LET q_key == ItemKey(m, items[idx + 1], idx) IN
         IF q_key = ""
         THEN IF DropsUnknown(m, partial)
              THEN ValidateLoop(m, partial, items, idx + 1, acc)
              ELSE [acc EXCEPT !.error = "Unknown question"]
         ELSE ValidateLoop(m, partial, items, idx + 1,
                  [acc EXCEPT !.normalized = Append(@, Entry(m, items[idx + 1], q_key)),
                              !.seen = @ \cup {q_key}])

\* missing = [k for k in mapping.must_have_keys if k not in seen]
MissingKeys(m, seenKeys) ==
    LET F[i \in 0..Len(m.must_have_keys)] ==
            IF i = 0 THEN <<>>
            ELSE IF m.must_have_keys[i] \in seenKeys THEN F[i - 1]
                 ELSE Append(F[i - 1], m.must_have_keys[i])
    IN  F[Len(m.must_have_keys)]

\* entries whose key is outside the sequence sort first
OrderOfOutsideFirst(m, k) ==
    LET hits == {i \in DOMAIN m.must_have_keys : m.must_have_keys[i] = k}
    IN  IF hits = {} THEN 0 - 1 ELSE (CHOOSE i \in hits : \A j \in hits : j <= i) - 1

\* order.get(key, 9999) with order = {k: i for i, k in enumerate(must_have_keys)}
OrderOf(m, k) ==
    LET hits == {i \in DOMAIN m.must_have_keys : m.must_have_keys[i] = k}
    IN  IF hits = {} THEN 9999 ELSE (CHOOSE i \in hits : \A j \in hits : j <= i) - 1

RECURSIVE InsertSorted(_, _, _)
InsertSorted(m, sorted, e) ==
    IF sorted = <<>> THEN <<e>>
    ELSE IF OrderOf(m, sorted[Len(sorted)].key) <= OrderOf(m, e.key) THEN Append(sorted, e)
         ELSE Append(InsertSorted(m, SubSeq(sorted, 1, Len(sorted) - 1), e), sorted[Len(sorted)])

RECURSIVE SortByOrder(_, _)
\* list.sort(key=...) is stable
SortByOrder(m, xs) ==
    IF xs = <<>> THEN <<>>
    ELSE InsertSorted(m, SortByOrder(m, SubSeq(xs, 1, Len(xs) - 1)), xs[Len(xs)])

\* Python's `a or b` on strings and None
Or(a, b) == IF a = None \/ a = "" THEN b ELSE a

\* the user dict of _validate (test_mode left out: nothing reads it)
UserOf(p) ==
    [full_name    |-> Or(Or(p.full_name, p.name), ""),
     email        |-> Or(p.email, ""),
     phone_number |-> Or(Or(p.phone_number, p.contact), ""),
     birth_date   |-> Or(Or(Or(p.birth_date, p.dob), p.date), ""),
     request_id   |-> Or(Or(p.request_id, p.id), ""),
     result_key   |-> Or(p.result_key, "")]

NoUser == [full_name |-> "", email |-> "", phone_number |-> "", birth_date |-> "",
           request_id |-> "", result_key |-> ""]

\* missing keys raise whatever ACCEPT_PARTIAL says
ValidateAlwaysStrict(p, m, partial) ==
    LET loop == ValidateLoop(m, partial, p.questionAnswers, 0,
                             [normalized |-> <<>>, seen |-> {}, error |-> ""])
        miss == MissingKeys(m, loop.seen)
    IN  IF loop.error # ""
        THEN [normalized |-> <<>>, seen |-> loop.seen, missing |-> <<>>, error |-> loop.error,
              user |-> NoUser]
        ELSE IF miss # <<>>
        THEN [normalized |-> <<>>, seen |-> loop.seen, missing |-> miss,
              error |-> "Mandatory questions missing", user |-> NoUser]
        ELSE [normalized |-> SortByOrder(m, loop.normalized), seen |-> loop.seen,
              missing |-> miss, error |-> "", user |-> UserOf(p)]

\* _validate: the user fields, the normalized list, seen, missing and the
\* ValueError raised (what it reads of the payload is questionAnswers and
\* the user fields; question_answers, read when questionAnswers is empty, is
\* not a field of the payloads here)
_validate(p, m, partial) ==
    LET loop == ValidateLoop(m, partial, p.questionAnswers, 0,
                             [normalized |-> <<>>, seen |-> {}, error |-> ""])
        miss == MissingKeys(m, loop.seen)
    IN  IF loop.error # ""
        THEN [normalized |-> <<>>, seen |-> loop.seen, missing |-> <<>>, error |-> loop.error,
              user |-> NoUser]
        ELSE IF miss # <<>> /\ ~partial
        THEN [normalized |-> <<>>, seen |-> loop.seen, missing |-> miss,
              error |-> "Mandatory questions missing", user |-> NoUser]
        ELSE [normalized |-> SortByOrder(m, loop.normalized), seen |-> loop.seen,
              missing |-> miss, error |-> "", user |-> UserOf(p)]

(***************************************************************************)
(* The request bodies: _xml_superset and _as_json_backend_payload          *)
(***************************************************************************)
\* time.strftime("%Y%m%d-%H%M%S") when the request is handled
Timestamp == "20240102-030405"
\* values uuid.uuid4().hex[:6] may take
UuidHex == {"a1b2c3", "0f9e8d"}

\* _gen_result_key(seed) with the uuid drawn; "" is a seed of None
_gen_result_key(seed, hex) ==
    "rk-" \o Strip(IF seed = "" THEN Timestamp ELSE seed) \o "-" \o hex

_nonempty(val, fallback) ==
    LET v == Strip(Or(val, "")) IN IF v # "" THEN v ELSE fallback

\* json.dumps of one entry of qa_payload
QaJson(qa) ==
    "{\"question\": \"" \o qa.question_text
        \o "\", \"selectedOption\": {\"value\": \"" \o qa.answer_text \o "\"}}"

RECURSIVE JoinQaJson(_)
JoinQaJson(qas) ==
    IF qas = <<>> THEN ""
    ELSE IF Len(qas) = 1 THEN QaJson(qas[1])
    ELSE QaJson(qas[1]) \o ", " \o JoinQaJson(Tail(qas))

\* json.dumps(qa_payload, ensure_ascii=False)
QaJsonStr(qas) == "[" \o JoinQaJson(qas) \o "]"

\* an element without children
Leaf(tag, text) == [tag |-> tag, text |-> text, children |-> <<>>]

\* _xml_superset: the children of <Request>, in document order, and the
\* result_key used
_xml_superset(u, qas, hex) ==
    LET incoming == Strip(Or(Or(u.result_key, u.request_id), ""))
        result_key == _gen_result_key(incoming, hex)
    IN  [xml |-> << Leaf("full_name", _nonempty(u.full_name, "Unknown User")),
                    Leaf("email", _nonempty(u.email, "unknown@example.invalid")),
                    Leaf("phone_number", _nonempty(u.phone_number, "N/A")),
                    Leaf("result_key", result_key),
                    Leaf("date", _nonempty(u.birth_date, "1970-01-01")),
                    Leaf("questionAnswers", QaJsonStr(qas)) >>,
         result_key |-> result_key]

RECURSIVE TextsOf(_, _)
\* [qa.get(field, "") or "" for qa in qas]
TextsOf(qas, question) ==
    IF qas = <<>> THEN <<>>
    ELSE <<IF question THEN qas[1].question_text ELSE qas[1].answer_text>>
            \o TextsOf(Tail(qas), question)

\* the key of the JSON body is the requester's own request_id
JsonBodyKeyFromUser(key, u, qas) ==
    [request_id   |-> u.request_id,
     email        |-> Or(u.email, "unknown@example.invalid"),
     name         |-> Or(u.full_name, "Unknown User"),
     phone_number |-> Or(u.phone_number, "N/A"),
     birth_date   |-> Or(u.birth_date, "1970-01-01"),
     questions    |-> TextsOf(qas, TRUE),
     answers      |-> TextsOf(qas, FALSE)]

_as_json_backend_payload(key, u, qas) ==
    [request_id   |-> key,
     email        |-> Or(u.email, "unknown@example.invalid"),
     name         |-> Or(u.full_name, "Unknown User"),
     phone_number |-> Or(u.phone_number, "N/A"),
     birth_date   |-> Or(u.birth_date, "1970-01-01"),
     questions    |-> TextsOf(qas, TRUE),
     answers      |-> TextsOf(qas, FALSE)]

\* no JSON body was built
NoJsonBody ==
    [request_id |-> "", email |-> "", name |-> "", phone_number |-> "",
     birth_date |-> "", questions |-> <<>>, answers |-> <<>>]

(***************************************************************************)
(* The repository's backend, src/main.py.  A document is the sequence of   *)
(* the children of its root; ".//tag" is looked up among them.             *)
(***************************************************************************)
\* root.find(".//tag"): the first element with that tag, <<>> for None
Find(root, tag) ==
    LET hits == {i \in DOMAIN root : root[i].tag = tag}
    IN  IF hits = {} THEN <<>> ELSE <<root[CHOOSE i \in hits : \A j \in hits : i <= j]>>

RECURSIVE _text(_, _)
\* the stripped text of the first of the tags that has text, else ""
_text(root, tags) ==
    IF tags = <<>> THEN ""
    ELSE LET node == Find(root, Head(tags)) IN
         IF node # <<>> /\ Strip(node[1].text) # "" THEN Strip(node[1].text)
         ELSE _text(root, Tail(tags))

\* root.find(a) or root.find(b): an element without children is falsy
FindOr(root, a, b) ==
    LET first == Find(root, a) IN
    IF first # <<>> /\ first[1].children # <<>> THEN first ELSE Find(root, b)

RECURSIVE QasOf(_)
\* the question/answer of every qa element that has one of the two
QasOf(qaElems) ==
    IF qaElems = <<>> THEN <<>>
    ELSE LET q == _text(Head(qaElems).children, <<"question", "Question">>)
             a == _text(Head(qaElems).children, <<"answer", "Answer">>)
         IN  (IF q # "" \/ a # "" THEN << [question |-> q, answer |-> a] >> ELSE <<>>)
                \o QasOf(Tail(qaElems))

\* createRequest on a well-formed document: what it extracts, the status
\* code it answers and the fields it reports missing
createRequest(root) ==
    LET name         == _text(root, <<"full_name", "FullName">>)
        email        == _text(root, <<"email", "Email">>)
        phone_number == _text(root, <<"phone_number", "PhoneNumber", "contact", "Contact">>)
        request_id   == _text(root, <<"request_id", "RequestId", "RequestID">>)
        birth_date   == _text(root, <<"date_of_birth", "DateOfBirth", "dob", "DOB">>)
        qa_parent    == FindOr(root, "question_answers", "QuestionAnswers")
        IsLower(e)   == e.tag = "qa"
        IsUpper(e)   == e.tag = "QA"
        qas          == IF qa_parent = <<>> THEN <<>>
                        ELSE QasOf(SelectSeq(qa_parent[1].children, IsLower)
                                     \o SelectSeq(qa_parent[1].children, IsUpper))
        absent       == (IF name = "" THEN <<"full_name">> ELSE <<>>)
                          \o (IF email = "" THEN <<"email">> ELSE <<>>)
                          \o (IF request_id = "" THEN <<"request_id">> ELSE <<>>)
    IN  [code |-> IF absent # <<>> THEN 422 ELSE 200,
         missing |-> absent,
         full_name |-> name, email |-> email, phone_number |-> phone_number,
         request_id |-> request_id, date_of_birth |-> birth_date,
         result_key |-> _text(root, <<"result_key", "ResultKey">>),
         qas |-> qas]

\* the status a route that main.py does not define is answered with
NoRouteCode == 404

(***************************************************************************)
(* Inputs: client payloads and backend responses                           *)
(***************************************************************************)
QuestionTexts == {"q1_purchasing_for", " q2_gender ", "WHO", "zzz", None}
AnswerTexts == {"for me"}
\* an item that gives an option of its question by the option's own label
LabelledItems == { [question |-> "q8_work_dress", answer |-> "Smart Casuals"] }
Items == [question : QuestionTexts, answer : AnswerTexts] \cup LabelledItems

SeqsUpTo(S, n) == UNION {[1..k -> S] : k \in 0..n}

\* a payload with no field set; the keyed map `answers` is a list of
\* key/value entries
BlankPayload ==
    [normalize_only |-> FALSE, questionAnswers |-> <<>>, answers |-> <<>>,
     full_name |-> None, name |-> None, email |-> None, phone_number |-> None,
     contact |-> None, phone |-> None, birth_date |-> None, dob |-> None,
     date |-> None, request_id |-> None, id |-> None, result_key |-> None]

\* payloads that differ in their question/answer items
QaPayloads ==
    { [BlankPayload EXCEPT !.normalize_only = n, !.questionAnswers = q] :
        n \in BOOLEAN, q \in SeqsUpTo(Items, MaxItems) }

\* the payload used while the backend's behaviour is explored
FixedPayload ==
    [BlankPayload EXCEPT !.questionAnswers = << [question |-> "WHO", answer |-> "for me"] >>]

\* payloads that differ in their user fields and correlation keys
UserProfiles ==
    { BlankPayload,
      [BlankPayload EXCEPT !.name = "Sakshi", !.email = "s@x.com", !.phone = "123",
                           !.dob = "2000-01-01",
                           !.answers = << [k |-> "who", v |-> "self"] >>],
      [FixedPayload EXCEPT !.full_name = " Asha ", !.name = "Sakshi", !.email = "a@x.com",
                           !.phone_number = "99", !.birth_date = "1990-05-05",
                           !.request_id = "req7"],
      [FixedPayload EXCEPT !.result_key = "  ", !.request_id = "req7"],
      [FixedPayload EXCEPT !.result_key = " rk1 ", !.request_id = "req7"],
      [FixedPayload EXCEPT !.result_key = "", !.id = "id3", !.contact = "55",
                           !.date = "1999-12-31"] }

UserPayloads == { [u EXCEPT !.normalize_only = n] : u \in UserProfiles, n \in BOOLEAN }

Payloads == QaPayloads \cup UserPayloads

\* the catalog used while the backend's behaviour is explored
FixedMapping ==
    Mapping([allow_unknown |-> FALSE,
             must_have_keys |-> <<"q1_purchasing_for", "q2_gender">>,
             questions |-> Questions])

Processing(hs) == Json("processing", "", {}, {}, hs)

\* create responses with a status code < 400
CreateBodies ==
    { Json("accepted", "", {}, {IdEntry("response_id", "r1")}, {}),
      Json("", "queued", {}, {IdEntry("response_id", "  "), IdEntry("id", " r2 "),
                              IdEntry("code", "c9")}, {}),
      Json("OK", "", {}, {IdEntry("response_id", "r1")}, {}),
      Json("", "", {"data"}, {}, {}),
      Json("pending", "", {"is_ready"}, {IdEntry("id", "r1")}, {}),
      Json("accepted", "", {}, {}, {}),
      TextBody }

\* status codes of a refused create
RejectCodes == {400, 500}

FetchResponses ==
    { [code |-> 202, ra |-> RA(3), body |-> NoBody],
      [code |-> 202, ra |-> NoRA, body |-> Processing({Hint("pollInMs", 2500)})],
      [code |-> 503, ra |-> RA(2), body |-> TextBody],
      [code |-> 200, ra |-> NoRA, body |-> Json("Processing", "", {"ready"}, {}, {})],
      [code |-> 200, ra |-> RA(0), body |-> Processing({})],
      [code |-> 200, ra |-> RA(9), body |-> Processing({Hint("retry_after", 15)})],
      [code |-> 200, ra |-> NoRA, body |-> Processing({Hint("retry_after", 15)})],
      [code |-> 200, ra |-> BadRA,
       body |-> Processing({BadHint("retryAfter"), Hint("pollInMs", 2500)})],
      [code |-> 200, ra |-> NoRA, body |-> Processing({Hint("poll_in_ms", 0)})],
      [code |-> 200, ra |-> NoRA, body |-> Json("", "DONE", {}, {}, {})],
      [code |-> 200, ra |-> NoRA, body |-> Json("processing", "", {"result"}, {}, {})],
      [code |-> 200, ra |-> NoRA, body |-> TextBody] }

\* what one create exchange takes, in ms
PostLatency == 100

(***************************************************************************)
(* State                                                                   *)
(***************************************************************************)
NoDiag == [kind |-> "none", status_code |-> 0, detail |-> <<>>]
NoResult == [kind |-> "none", body |-> NoBody, last |-> NoLast, polling_with |-> "",
             path |-> "", id |-> "", body_sent |-> NoJsonBody]
NoHttp == [code |-> 0, status |-> "", error |-> "", missing_keys |-> <<>>, result_key |-> ""]

Init ==
    /\ pc = "recv"
    /\ \/ /\ net = "up"
          /\ payload = FixedPayload
          /\ mapping = FixedMapping
          /\ ACCEPT_PARTIAL = TRUE
       \/ /\ net = "down"
          /\ payload \in Payloads
          /\ mapping \in Mappings
          /\ ACCEPT_PARTIAL \in BOOLEAN
       \/ /\ net = "mock"
          /\ payload \in UserPayloads
          /\ mapping = FixedMapping
          /\ ACCEPT_PARTIAL = TRUE
    /\ normalized = <<>> /\ seen = {} /\ missing = <<>> /\ verror = ""
    /\ user = NoUser /\ effective_result_key = "" /\ xml_body = <<>>
    /\ clock = 0 /\ deadline = 0
    /\ path = "" /\ xml_first_try = NoDiag /\ retries = 0
    /\ xmlSends = 0 /\ jsonSends = 0
    /\ create_json = NoBody /\ rid = ""
    /\ last = NoLast /\ resp = NoResp /\ wait = 0 /\ fetchIds = {}
    /\ result = NoResult /\ http = NoHttp

(***************************************************************************)
(* The /adapter handler up to the backend call                             *)
(***************************************************************************)
\* user, qas, validation = _validate(payload, MAPPING)
Validated(v) ==
    /\ normalized' = v.normalized /\ seen' = v.seen
    /\ missing' = v.missing /\ verror' = v.error
    /\ user' = v.user

\* xml_body, effective_result_key = _xml_superset(user, qas)
Rendered(v) ==
    \E hex \in UuidHex :
        LET x == _xml_superset(v.user, v.normalized, hex) IN
            /\ xml_body' = x.xml
            /\ effective_result_key' = x.result_key

\* _validate raised ValueError: 400 with the error's JSON
AdapterReject ==
    /\ pc = "recv"
    /\ LET v == _validate(payload, mapping, ACCEPT_PARTIAL) IN
         /\ v.error # ""
         /\ Validated(v)
         /\ http' = [code |-> 400, status |-> "error", error |-> v.error,
                     missing_keys |-> v.missing, result_key |-> ""]
    /\ UNCHANGED <<effective_result_key, xml_body>>
    /\ pc' = "done"
    /\ UNCHANGED <<cfgVars, pollVars, createVars, result>>

\* normalize_only: answer without calling the backend
AdapterNormalizeOnly ==
    /\ pc = "recv"
    /\ payload.normalize_only
    /\ LET v == _validate(payload, mapping, ACCEPT_PARTIAL) IN
         /\ v.error = ""
         /\ Validated(v)
         /\ Rendered(v)
         /\ http' = [code |-> 200, status |-> "ok", error |-> "", missing_keys |-> v.missing,
                     result_key |-> effective_result_key']
    /\ pc' = "done"
    /\ UNCHANGED <<cfgVars, pollVars, createVars, result>>

\* _call_backend is entered
AdapterDispatch ==
    /\ pc = "recv"
    /\ ~payload.normalize_only
    /\ LET v == _validate(payload, mapping, ACCEPT_PARTIAL) IN
         /\ v.error = ""
         /\ Validated(v)
         /\ Rendered(v)
    /\ pc' = "xml_create"
    /\ retries' = RetryTotal
    /\ UNCHANGED <<cfgVars, pollVars, path, xml_first_try, xmlSends, jsonSends,
                   create_json, rid, result, http>>

(***************************************************************************)
(* _call_backend.  HTTP is a session whose adapter re-sends a request up   *)
(* to RetryTotal times after a connection failure or a status of the       *)
(* forcelist, and hands out the last response when the re-sends are used   *)
(* up (raise_on_status=False).                                             *)
(***************************************************************************)
\* _call_backend ends and the /adapter handler answers: an exception of
\* _call_backend gives 502, everything it returns gives 200 with status "ok"
Return(res) ==
    /\ result' = res
    /\ http' = IF res.kind = "raised"
               THEN [code |-> 502, status |-> "error", error |-> "backend_error",
                     missing_keys |-> <<>>, result_key |-> ""]
               ELSE [code |-> 200, status |-> "ok", error |-> "", missing_keys |-> missing,
                     result_key |-> effective_result_key]
    /\ pc' = "done"

\* what makes the session send again: a connection failure (0) or, from a
\* backend that can be reached, a status of the forcelist
RetriedFailures == {0} \cup (IF net = "up" THEN RejectCodes \cap StatusForcelist ELSE {})

\* a create response without an id falls through to step 2
XmlHandleCreateFallsThrough(b, now) ==
    IF ~b.json
    THEN /\ Return([NoResult EXCEPT !.kind = "backend_raw", !.body = b, !.path = "xml_first_try"])
         /\ UNCHANGED <<create_json, rid, deadline, last>>
    ELSE IF _is_final(b)
    THEN /\ Return([NoResult EXCEPT !.kind = "backend_final", !.body = b,
                        !.path = "xml_first_try"])
         /\ create_json' = b
         /\ UNCHANGED <<rid, deadline, last>>
    ELSE IF _extract_response_id(b) = ""
    THEN /\ create_json' = b
         /\ pc' = "json_create"
         /\ UNCHANGED <<rid, deadline, last, result, http>>
    ELSE /\ create_json' = b
         /\ rid' = _extract_response_id(b)
         /\ deadline' = now + BACKEND_TIMEOUT_S * 1000
         /\ last' = NoLast
         /\ pc' = "xml_poll"
         /\ UNCHANGED <<result, http>>

\* what the xml_first_try branch does with a create response answered < 400:
\* return it as raw, final or create, or poll with the id it carries
XmlCreateOutcome(b) ==
    IF ~b.json THEN [kind |-> "backend_raw", rid |-> ""]
    ELSE IF _is_final(b) THEN [kind |-> "backend_final", rid |-> ""]
    ELSE IF _extract_response_id(b) = "" THEN [kind |-> "backend_create", rid |-> ""]
    ELSE [kind |-> "poll", rid |-> _extract_response_id(b)]

\* the create response parsed and acted on in the xml_first_try branch
XmlHandleCreate(b, now) ==
    LET o == XmlCreateOutcome(b) IN
    IF o.kind = "poll"
    THEN /\ create_json' = b
         /\ rid' = o.rid
         /\ deadline' = now + BACKEND_TIMEOUT_S * 1000
         /\ last' = NoLast
         /\ pc' = "xml_poll"
         /\ UNCHANGED <<result, http>>
    ELSE /\ Return([NoResult EXCEPT !.kind = o.kind, !.body = b, !.path = "xml_first_try"])
         /\ create_json' = IF b.json THEN b ELSE create_json
         /\ UNCHANGED <<rid, deadline, last>>

\* an XML create exchange fails and the session sends the request again
XmlResend ==
    /\ pc = "xml_create"
    /\ retries > 0
    /\ \E failure \in RetriedFailures : TRUE
    /\ xmlSends' = xmlSends + 1
    /\ retries' = retries - 1
    /\ clock' = clock + PostLatency
    /\ UNCHANGED <<pc, cfgVars, valVars, deadline, last, resp, wait, fetchIds, path,
                   xml_first_try, jsonSends, create_json, rid, result, http>>

\* HTTP.post raises: xml_first_try records the transport error, go to step 2
XmlTransportError ==
    /\ pc = "xml_create"
    /\ retries = 0
    /\ xmlSends' = xmlSends + 1
    /\ clock' = clock + PostLatency
    /\ xml_first_try' = [NoDiag EXCEPT !.kind = "transport_error"]
    /\ retries' = RetryTotal
    /\ path' = "json_fallback"
    /\ pc' = "json_create"
    /\ UNCHANGED <<cfgVars, valVars, deadline, last, resp, wait, fetchIds, jsonSends,
                   create_json, rid, result, http>>

\* the XML create is answered >= 400: go to step 2
XmlRejected ==
    /\ pc = "xml_create"
    /\ net = "up"
    /\ \E code \in RejectCodes :
         /\ code \in StatusForcelist => retries = 0
         /\ xml_first_try' = [NoDiag EXCEPT !.kind = "status", !.status_code = code]
    /\ xmlSends' = xmlSends + 1
    /\ clock' = clock + PostLatency
    /\ retries' = RetryTotal
    /\ path' = "json_fallback"
    /\ pc' = "json_create"
    /\ UNCHANGED <<cfgVars, valVars, deadline, last, resp, wait, fetchIds, jsonSends,
                   create_json, rid, result, http>>

\* the XML create is answered < 400
XmlAccepted ==
    /\ pc = "xml_create"
    /\ net = "up"
    /\ xmlSends' = xmlSends + 1
    /\ clock' = clock + PostLatency
    /\ xml_first_try' = [NoDiag EXCEPT !.kind = "status", !.status_code = 200]
    /\ path' = "xml_first_try"
    /\ retries' = 0
    /\ \E b \in CreateBodies : XmlHandleCreate(b, clock')
    /\ UNCHANGED <<cfgVars, valVars, resp, wait, fetchIds, jsonSends>>

\* the XML create is answered by main.py's createRequest
BackendCreateRequest ==
    /\ pc = "xml_create"
    /\ net = "mock"
    /\ xmlSends' = xmlSends + 1
    /\ clock' = clock + PostLatency
    /\ LET r == createRequest(xml_body) IN
         IF r.code >= 400
         THEN /\ xml_first_try' = [kind |-> "status", status_code |-> r.code,
                                   detail |-> r.missing]
              /\ retries' = RetryTotal
              /\ path' = "json_fallback"
              /\ pc' = "json_create"
              /\ UNCHANGED <<create_json, rid, deadline, last, result, http>>
         ELSE /\ xml_first_try' = [NoDiag EXCEPT !.kind = "status", !.status_code = r.code]
              /\ retries' = 0
              /\ path' = "xml_first_try"
              /\ \E id \in UuidHex :
                   XmlHandleCreate(Json("accepted", "", {}, {IdEntry("response_id", id)}, {}),
                                   clock')
    /\ UNCHANGED <<cfgVars, valVars, resp, wait, fetchIds, jsonSends>>

\* what one iteration of the xml_first_try poll loop does with a fetch response:
\* sleep and go on (recording an error response in `last`), or return
XmlPollOutcome(r) ==
    IF r.code = 202
    THEN [kind |-> "sleep", wait |-> _get_retry_after(r, FALSE), error |-> FALSE]
    ELSE IF r.code >= 400
    THEN [kind |-> "sleep", wait |-> ErrorWaitMs, error |-> TRUE]
    ELSE IF ~r.body.json
    THEN [kind |-> "backend_raw", wait |-> 0, error |-> FALSE]
    ELSE IF XmlPollTerminal(r.body)
    THEN [kind |-> "backend_final", wait |-> 0, error |-> FALSE]
    ELSE [kind |-> "sleep", wait |-> _get_retry_after(r, TRUE), error |-> FALSE]

\* one iteration of the xml_first_try poll loop: the GET and what follows it
XmlPollIteration ==
    /\ pc = "xml_poll"
    /\ clock < deadline
    /\ \E r \in FetchResponses, d \in Latencies :
         LET o == XmlPollOutcome(r) IN
         /\ resp' = r
         /\ fetchIds' = fetchIds \cup {rid}
         /\ last' = IF o.error THEN [status_code |-> r.code, body |-> r.body] ELSE last
         /\ IF o.kind = "sleep"
            THEN /\ wait' = o.wait
                 /\ clock' = clock + d + o.wait
                 /\ UNCHANGED <<result, http, pc>>
            ELSE /\ Return([NoResult EXCEPT !.kind = o.kind, !.body = r.body,
                                !.polling_with = "response_id", !.id = rid,
                                !.path = "xml_first_try"])
                 /\ clock' = clock + d
                 /\ UNCHANGED wait
    /\ UNCHANGED <<cfgVars, valVars, createVars, deadline>>

\* HTTP.get raises in the xml_first_try poll loop: the exception leaves _call_backend
XmlPollRaises ==
    /\ pc = "xml_poll"
    /\ clock < deadline
    /\ \E d \in Latencies : clock' = clock + d
    /\ fetchIds' = fetchIds \cup {rid}
    /\ Return([NoResult EXCEPT !.kind = "raised", !.path = "xml_first_try"])
    /\ UNCHANGED <<cfgVars, valVars, createVars, deadline, last, resp, wait>>

\* the xml_first_try loop condition fails: backend_fetch_timeout
XmlPollTimeout ==
    /\ pc = "xml_poll"
    /\ ~(clock < deadline)
    /\ Return([NoResult EXCEPT !.kind = "backend_fetch_timeout", !.last = last,
                   !.polling_with = "response_id", !.id = rid, !.path = "xml_first_try"])
    /\ UNCHANGED <<cfgVars, valVars, createVars, pollVars>>

\* the json_fallback branch does not take ready / is_ready for final
JsonCreateOutcomeNoReadyFlags(b) ==
    IF ~b.json THEN [kind |-> "backend_raw", rid |-> ""]
    ELSE IF JsonPollTerminal(b) THEN [kind |-> "backend_final", rid |-> ""]
    ELSE IF _extract_response_id(b) = "" THEN [kind |-> "backend_create", rid |-> ""]
    ELSE [kind |-> "poll", rid |-> _extract_response_id(b)]

\* what the json_fallback branch does with a create response answered < 400:
\* return it as raw, final or create, or poll with the id it carries
JsonCreateOutcome(b) ==
    IF ~b.json THEN [kind |-> "backend_raw", rid |-> ""]
    ELSE IF _is_final2(b) THEN [kind |-> "backend_final", rid |-> ""]
    ELSE IF _extract_response_id(b) = "" THEN [kind |-> "backend_create", rid |-> ""]
    ELSE [kind |-> "poll", rid |-> _extract_response_id(b)]

\* the create response parsed and acted on in the json_fallback branch
JsonHandleCreate(b, now) ==
    LET o == JsonCreateOutcome(b) IN
    IF o.kind = "poll"
    THEN /\ create_json' = b
         /\ rid' = o.rid
         /\ deadline' = now + BACKEND_TIMEOUT_S * 1000
         /\ last' = NoLast
         /\ pc' = "json_poll"
         /\ UNCHANGED <<result, http>>
    ELSE /\ Return([NoResult EXCEPT !.kind = o.kind, !.body = b, !.path = "json_fallback"])
         /\ create_json' = IF b.json THEN b ELSE create_json
         /\ UNCHANGED <<rid, deadline, last>>

\* a JSON create exchange fails and the session sends the request again
JsonResend ==
    /\ pc = "json_create"
    /\ retries > 0
    /\ \E failure \in RetriedFailures : TRUE
    /\ jsonSends' = jsonSends + 1
    /\ retries' = retries - 1
    /\ clock' = clock + PostLatency
    /\ UNCHANGED <<pc, cfgVars, valVars, deadline, last, resp, wait, fetchIds, path,
                   xml_first_try, xmlSends, create_json, rid, result, http>>

\* HTTP.post raises in step 2: the diagnostics are returned
JsonTransportError ==
    /\ pc = "json_create"
    /\ retries = 0
    /\ jsonSends' = jsonSends + 1
    /\ clock' = clock + PostLatency
    /\ Return([NoResult EXCEPT !.kind = "json_transport_error", !.path = "json_fallback",
                   !.body_sent = _as_json_backend_payload(effective_result_key, user,
                                                          normalized)])
    /\ UNCHANGED <<cfgVars, valVars, deadline, last, resp, wait, fetchIds, path,
                   xml_first_try, retries, xmlSends, create_json, rid>>

\* the JSON create is answered >= 400: the diagnostics are returned
JsonRejected ==
    /\ pc = "json_create"
    /\ net = "up"
    /\ \E code \in RejectCodes : code \in StatusForcelist => retries = 0
    /\ jsonSends' = jsonSends + 1
    /\ clock' = clock + PostLatency
    /\ retries' = 0
    /\ Return([NoResult EXCEPT !.kind = "json_rejected", !.body = TextBody,
                   !.path = "json_fallback",
                   !.body_sent = _as_json_backend_payload(effective_result_key, user,
                                                          normalized)])
    /\ UNCHANGED <<cfgVars, valVars, deadline, last, resp, wait, fetchIds, path,
                   xml_first_try, xmlSends, create_json, rid>>

\* the JSON create is answered < 400
JsonAccepted ==
    /\ pc = "json_create"
    /\ net = "up"
    /\ jsonSends' = jsonSends + 1
    /\ clock' = clock + PostLatency
    /\ retries' = 0
    /\ \E b \in CreateBodies : JsonHandleCreate(b, clock')
    /\ UNCHANGED <<cfgVars, valVars, resp, wait, fetchIds, path, xml_first_try, xmlSends>>

\* the JSON create goes to a route main.py does not define
BackendNoJsonRoute ==
    /\ pc = "json_create"
    /\ net = "mock"
    /\ NoRouteCode >= 400 /\ NoRouteCode \notin StatusForcelist
    /\ jsonSends' = jsonSends + 1
    /\ clock' = clock + PostLatency
    /\ retries' = 0
    /\ Return([NoResult EXCEPT !.kind = "json_rejected", !.body = TextBody,
                   !.path = "json_fallback",
                   !.body_sent = _as_json_backend_payload(effective_result_key, user,
                                                          normalized)])
    /\ UNCHANGED <<cfgVars, valVars, deadline, last, resp, wait, fetchIds, path,
                   xml_first_try, xmlSends, create_json, rid>>

\* what one iteration of the json_fallback poll loop does with a fetch response:
\* sleep and go on (recording an error response in `last`), or return
JsonPollOutcome(r) ==
    IF r.code = 202
    THEN [kind |-> "sleep", wait |-> _get_retry_after(r, FALSE), error |-> FALSE]
    ELSE IF r.code >= 400
    THEN [kind |-> "sleep", wait |-> ErrorWaitMs, error |-> TRUE]
    ELSE IF ~r.body.json
    THEN [kind |-> "backend_raw", wait |-> 0, error |-> FALSE]
    ELSE IF JsonPollTerminal(r.body)
    THEN [kind |-> "backend_final", wait |-> 0, error |-> FALSE]
    ELSE [kind |-> "sleep", wait |-> _get_retry_after(r, TRUE), error |-> FALSE]

\* one iteration of the json_fallback poll loop: the GET and what follows it
JsonPollIteration ==
    /\ pc = "json_poll"
    /\ clock < deadline
    /\ \E r \in FetchResponses, d \in Latencies :
         LET o == JsonPollOutcome(r) IN
         /\ resp' = r
         /\ fetchIds' = fetchIds \cup {rid}
         /\ last' = IF o.error THEN [status_code |-> r.code, body |-> r.body] ELSE last
         /\ IF o.kind = "sleep"
            THEN /\ wait' = o.wait
                 /\ clock' = clock + d + o.wait
                 /\ UNCHANGED <<result, http, pc>>
            ELSE /\ Return([NoResult EXCEPT !.kind = o.kind, !.body = r.body,
                                !.polling_with = "response_id", !.id = rid,
                                !.path = "json_fallback"])
                 /\ clock' = clock + d
                 /\ UNCHANGED wait
    /\ UNCHANGED <<cfgVars, valVars, createVars, deadline>>

\* HTTP.get raises in the json_fallback poll loop: the exception leaves _call_backend
JsonPollRaises ==
    /\ pc = "json_poll"
    /\ clock < deadline
    /\ \E d \in Latencies : clock' = clock + d
    /\ fetchIds' = fetchIds \cup {rid}
    /\ Return([NoResult EXCEPT !.kind = "raised", !.path = "json_fallback"])
    /\ UNCHANGED <<cfgVars, valVars, createVars, deadline, last, resp, wait>>

\* the json_fallback loop condition fails: backend_fetch_timeout
JsonPollTimeout ==
    /\ pc = "json_poll"
    /\ ~(clock < deadline)
    /\ Return([NoResult EXCEPT !.kind = "backend_fetch_timeout", !.last = last,
                   !.polling_with = "response_id", !.id = rid, !.path = "json_fallback"])
    /\ UNCHANGED <<cfgVars, valVars, createVars, pollVars>>

\* the steps of _call_backend
_call_backend ==
    \/ XmlResend \/ XmlTransportError \/ XmlRejected \/ XmlAccepted
    \/ BackendCreateRequest \/ BackendNoJsonRoute
    \/ XmlPollIteration \/ XmlPollRaises \/ XmlPollTimeout
    \/ JsonResend \/ JsonTransportError \/ JsonRejected \/ JsonAccepted
    \/ JsonPollIteration \/ JsonPollRaises \/ JsonPollTimeout

Next ==
    \/ AdapterReject \/ AdapterNormalizeOnly \/ AdapterDispatch
    \/ _call_backend

Spec == Init /\ [][Next]_vars

\* _call_backend keeps running once entered: every post, get and sleep
\* comes back, none of its steps is postponed forever
FairSpec == Spec /\ WF_vars(_call_backend)

(***************************************************************************)
(* Properties                                                              *)
(***************************************************************************)
Polling == pc \in {"xml_poll", "json_poll"}
Polled == result.polling_with # ""

\* C1: every dispatch that is entered ends with an answer, and an iteration
\* that would start at or after the deadline does not fetch: it leaves the
\* loop with the Timeout outcome.
C1_DispatchTerminates ==
    /\ (pc = "xml_create") ~> (pc = "done" /\ http.code # 0)
    /\ [][Polling /\ clock >= deadline =>
            pc' = "done" /\ result'.kind = "backend_fetch_timeout" /\ resp' = resp]_vars

\* C1 witness: a backend that only ever said "not ready" ended in Timeout
C1_Witness ==
    /\ pc = "done" /\ result.kind = "backend_fetch_timeout"
    /\ clock >= deadline /\ resp.code = 200

\* C2: a Timeout outcome carries the payload of the most recent fetch
\* response as its `last` field.
C2_TimeoutCarriesLastSeen ==
    pc = "done" /\ result.kind = "backend_fetch_timeout" /\ resp # NoResp =>
        result.last # NoLast /\ result.last.body = resp.body

\* terminal as the poll loop's contract puts it: a status of the done set,
\* a data or result key, or the done flag
TerminalPayload(d) ==
    \/ StatusOf(d) \in DoneStatuses
    \/ d.keys \cap {"data", "result", "done"} # {}

NotReady(r) == r.code = 202 \/ r.code >= 400 \/ (r.body.json /\ ~TerminalPayload(r.body))

XmlFailed ==
    \/ xml_first_try.kind = "transport_error"
    \/ xml_first_try.kind = "status" /\ xml_first_try.status_code >= 400

\* C4 as stated: XML is put on the wire once, JSON at most once and only
\* after XML was answered >= 400.
C4_SingleSendPerFormat ==
    /\ xmlSends <= 1 /\ jsonSends <= 1
    /\ jsonSends > 0 => xml_first_try.kind = "status" /\ xml_first_try.status_code >= 400

\* C4 amended: one XML call, then at most one JSON call and only when the
\* XML call failed (it raised, or was answered >= 400); a create answered
\* < 400 is never followed by a JSON create; inside a call the session
\* re-sends after a connection failure or a forcelist status, so that each
\* format is put on the wire at most 4 times.
C4_FallbackOnlyAfterFailure ==
    /\ xmlSends <= 4 /\ jsonSends <= 4
    /\ pc = "xml_create" => xmlSends = RetryTotal - retries /\ jsonSends = 0
    /\ pc = "json_create" => jsonSends = RetryTotal - retries
    /\ jsonSends > 0 \/ pc = "json_create" => XmlFailed
    /\ xml_first_try.kind = "status" /\ xml_first_try.status_code < 400 =>
          jsonSends = 0 /\ pc # "json_create"

\* C4 witness: both calls used up their re-sends
C4_Witness == pc = "done" /\ xmlSends = 4 /\ jsonSends = 4

\* the id the create response carries: the value, stripped, under the first
\* id-bearing key whose value is not blank
CarriedId(d) ==
    LET at == {i \in DOMAIN IdKeys :
                  HasKey(d.ids, IdKeys[i]) /\ Strip(Get(d.ids, IdKeys[i]).v) # ""}
    IN  IF at = {} THEN ""
        ELSE Strip(Get(d.ids, IdKeys[CHOOSE i \in at : \A j \in at : i <= j]).v)

LooksTerminal(d) ==
    \/ StatusOf(d) \in DoneStatuses
    \/ d.keys \cap {"data", "result", "done", "ready", "is_ready"} # {}

\* C5 as stated: a create response with an id leads to polling with that
\* id, and the short-circuit to Final is only taken without an id.
C5_IdAlwaysPolled ==
    /\ create_json.json /\ CarriedId(create_json) # "" =>
          (Polling \/ Polled \/ result.kind = "raised") /\ rid = CarriedId(create_json)
    /\ pc = "done" /\ result.kind = "backend_final" /\ ~Polled => CarriedId(result.body) = ""

\* C5 amended: the terminal test comes first.  A create response that looks
\* terminal is answered with Final at once, with or without an id; one that
\* does not look terminal and carries an id leads to polling, and every
\* fetch of the dispatch uses that id.
C5_TerminalFirstThenId ==
    /\ create_json.json /\ LooksTerminal(create_json) =>
          pc = "done" /\ result.kind = "backend_final" /\ ~Polled /\ fetchIds = {}
    /\ create_json.json /\ ~LooksTerminal(create_json) /\ CarriedId(create_json) # "" =>
          /\ Polling \/ Polled \/ result.kind = "raised"
          /\ rid = CarriedId(create_json)
          /\ fetchIds \subseteq {CarriedId(create_json)}
    /\ pc = "done" /\ result.kind = "backend_final" /\ ~Polled => LooksTerminal(result.body)
    /\ fetchIds # {} => fetchIds = {CarriedId(create_json)}

\* C5 witness: fetches went out with the id found under the second key tried
C5_Witness ==
    /\ fetchIds = {"r2"} /\ HasKey(create_json.ids, "response_id")
    /\ pc = "done" /\ result.kind = "backend_final"

\* the hint of a fetch response: its Retry-After header or else the
\* poll-interval entry of its body, in ms; <<>> when it has neither
HeaderHint(r) == IF r.ra.present /\ r.ra.ok THEN <<r.ra.sec * 1000>> ELSE <<>>
BodyHint(r) ==
    LET sec == {i \in DOMAIN SecHintKeys :
                   \E e \in r.body.hints : e.k = SecHintKeys[i] /\ e.ok}
        ms == {i \in DOMAIN MsHintKeys :
                   \E e \in r.body.hints : e.k = MsHintKeys[i] /\ e.ok}
    IN  IF sec # {}
        THEN <<Get(r.body.hints, SecHintKeys[CHOOSE i \in sec : \A j \in sec : i <= j]).v * 100>>
        ELSE IF ms # {}
        THEN <<Get(r.body.hints, MsHintKeys[CHOOSE i \in ms : \A j \in ms : i <= j]).v>>
        ELSE <<>>
AnyHint(r) == IF HeaderHint(r) # <<>> THEN HeaderHint(r) ELSE BodyHint(r)
Clamped(ms) == IF ms < 200 THEN 200 ELSE IF ms > 5000 THEN 5000 ELSE ms

\* C6 as stated: whatever the status code, the wait after a response that
\* supplies a hint is the hint clamped to [200, 5000] ms.
C6_HintHonouredAlways ==
    Polling /\ resp # NoResp /\ AnyHint(resp) # <<>> => wait = Clamped(AnyHint(resp)[1])

\* C6 amended: every wait lies in [200, 5000] ms.  After a non-terminal 200
\* it is the clamped Retry-After header or else the clamped body entry;
\* after a 202 only the header counts; without a usable hint it is 700 ms;
\* after a 4xx/5xx it is 700 ms whatever the response says.
C6_WaitByStatus ==
    Polling /\ resp # NoResp =>
        /\ 200 <= wait /\ wait <= 5000
        /\ resp.code >= 400 => wait = 700
        /\ resp.code = 202 =>
              wait = IF HeaderHint(resp) # <<>> THEN Clamped(HeaderHint(resp)[1]) ELSE 700
        /\ resp.code = 200 =>
              wait = IF AnyHint(resp) # <<>> THEN Clamped(AnyHint(resp)[1]) ELSE 700

\* C6 witness: a body entry in milliseconds was honoured after a header
\* that does not parse
C6_Witness ==
    /\ Polling /\ resp.code = 200 /\ ~resp.ra.ok /\ resp.ra.present
    /\ wait = 2500

\* C7: a create that failed (no connection, or >= 400, also on the
\* fallback attempt) is answered 502 and never as status "ok".
C7_FailedCreateIs502 ==
    pc = "done" /\ result.kind \in {"json_transport_error", "json_rejected"} =>
        http.code = 502 /\ http.status # "ok"

\* C8: with missing keys, strict mode answers 400 "Mandatory questions
\* missing" listing them and sends no create; permissive mode raises
\* nothing, reports them in validation.missing_keys and calls the backend
\* (unless the request asked for normalize_only).
C8_ValidationGate ==
    missing # <<>> =>
        /\ ~ACCEPT_PARTIAL =>
              /\ pc = "done" /\ http.code = 400 /\ http.status = "error"
              /\ http.error = "Mandatory questions missing"
              /\ http.missing_keys = missing
              /\ xmlSends = 0 /\ jsonSends = 0
        /\ ACCEPT_PARTIAL =>
              /\ verror = "" /\ http.code # 400
              /\ pc = "done" /\ http.code = 200 => http.missing_keys = missing
              /\ pc = "done" /\ ~payload.normalize_only => xmlSends >= 1

\* C8 witness: strict mode turned a request with a missing key away
C8_Witness ==
    /\ pc = "done" /\ ~ACCEPT_PARTIAL /\ missing # <<>>
    /\ http.code = 400 /\ Len(payload.questionAnswers) > 0

\* the question text of an item as _validate reads it
QuestionOf(item) == IF item.question = None \/ Strip(item.question) = "" THEN "" ELSE item.question

\* the required keys, in catalog order, outside a set of supplied keys
RequiredWithout(supplied) ==
    LET Absent(k) == k \notin supplied IN SelectSeq(mapping.must_have_keys, Absent)

\* C9 as stated: a required key is missing exactly when no item carried a
\* question that resolves to it.
C9_MissingIsUnresolved ==
    pc # "recv" /\ verror # "Unknown question" =>
        missing = RequiredWithout({resolve_q_key(mapping, QuestionOf(it)) :
                                      it \in Range(payload.questionAnswers)})

\* the key an item stands for: what its question resolves to, or else, for
\* an item at a position below the number of required keys, the required
\* key of that position
AssignedKey(items, i) ==
    LET r == resolve_q_key(mapping, QuestionOf(items[i])) IN
    IF r # "" THEN r
    ELSE IF i <= Len(mapping.must_have_keys) THEN mapping.must_have_keys[i]
    ELSE ""

\* C9 amended: a required key is missing exactly when no item stands for
\* it, by its question or, the question not resolving, by its position.
C9_MissingIsUnassigned ==
    pc # "recv" /\ verror # "Unknown question" =>
        missing = RequiredWithout({AssignedKey(payload.questionAnswers, i) :
                                      i \in DOMAIN payload.questionAnswers})

\* C9 witness: of two required keys one was supplied by its label, the
\* other is reported
C9_Witness ==
    /\ pc # "recv" /\ Len(mapping.must_have_keys) = 2
    /\ Len(payload.questionAnswers) = 1 /\ payload.questionAnswers[1].question = "WHO"
    /\ missing = <<"q2_gender">>

\* C10: no two entries of the normalized list have the same key.
C10_KeysUnique ==
    \A i, j \in DOMAIN normalized : i # j => normalized[i].key # normalized[j].key

\* the position of a key in the catalog's sequence of required keys
SeqPos(k) == CHOOSE i \in DOMAIN mapping.must_have_keys : mapping.must_have_keys[i] = k
InSequence(k) == k \in Range(mapping.must_have_keys)

RECURSIVE KeysOutsideSequence(_, _)
\* the keys the input items from position i on stand for that are outside
\* the sequence, in input order
KeysOutsideSequence(items, i) ==
    IF i > Len(items) THEN <<>>
    ELSE LET k == AssignedKey(items, i) IN
         IF k = "" \/ InSequence(k) THEN KeysOutsideSequence(items, i + 1)
         ELSE <<k>> \o KeysOutsideSequence(items, i + 1)

RECURSIVE KeysOf(_)
KeysOf(pairs) == IF pairs = <<>> THEN <<>> ELSE <<pairs[1].key>> \o KeysOf(Tail(pairs))

\* C11: whatever the order of the input items, the pairs of the normalized
\* list whose key is in the catalog's sequence come in sequence order, the
\* pairs whose key is outside it come after all of them, and these keep the
\* order they had in the input.
C11_CatalogOrder ==
    pc # "recv" /\ verror = "" =>
        /\ \A i, j \in DOMAIN normalized :
              i < j => /\ InSequence(normalized[j].key) => InSequence(normalized[i].key)
                       /\ InSequence(normalized[j].key)
                            => SeqPos(normalized[i].key) <= SeqPos(normalized[j].key)
        /\ LET Outside(e) == ~InSequence(e.key) IN
              KeysOf(SelectSeq(normalized, Outside))
                  = KeysOutsideSequence(payload.questionAnswers, 1)

\* C11 witness: a key outside the sequence was given first and the two
\* keys of the sequence in reverse; the list has them in sequence order
\* with the outside key last
C11_Witness ==
    /\ pc # "recv" /\ verror = "" /\ Len(payload.questionAnswers) = 2
    /\ payload.questionAnswers[1].question = "q8_work_dress"
    /\ payload.questionAnswers[2].question = "q1_purchasing_for"
    /\ KeysOf(normalized) = <<"q1_purchasing_for", "q8_work_dress">>

RECURSIVE PairsOf(_)
\* the question/answer texts of a normalized list, in order
PairsOf(qas) ==
    IF qas = <<>> THEN <<>>
    ELSE << [question |-> qas[1].question_text, answer |-> qas[1].answer_text] >>
            \o PairsOf(Tail(qas))

\* C12: the document _xml_superset builds, parsed by createRequest, is
\* accepted and gives back the user fields, the key and the ordered
\* question/answer pairs of the normalized request.
C12_XmlRoundTrip ==
    net = "mock" /\ xml_first_try.kind = "status" =>
        LET r == createRequest(xml_body) IN
            /\ xml_first_try.status_code < 400
            /\ r.code = 200
            /\ r.full_name = user.full_name
            /\ r.email = user.email
            /\ r.phone_number = user.phone_number
            /\ r.date_of_birth = user.birth_date
            /\ r.result_key = effective_result_key
            /\ r.qas = PairsOf(normalized)

\* C13: the payload {name, email, phone, dob, answers: {who: "self"}} is
\* normalized to fullName = name, the single pair (q1_purchasing_for, its
\* canonical question, "Self") and every other required key missing.
C13_KeyedMapNormalized ==
    /\ pc # "recv" /\ verror = ""
    /\ payload.answers = << [k |-> "who", v |-> "self"] >>
    /\ payload.questionAnswers = <<>>
    =>  /\ user.full_name = payload.name
        /\ normalized = << [key |-> "q1_purchasing_for",
                             question_text |-> "Who are you purchasing for?",
                             answer_text |-> "Self"] >>
        /\ missing = RequiredWithout({"q1_purchasing_for"})

\* the text of the result_key element of the XML body
XmlResultKey == Find(xml_body, "result_key")[1].text

\* C14: the key reported to the client as result_key is never empty and is
\* the value of the XML body's result_key element and of the JSON fallback
\* body's request_id, whatever result_key or request_id the client gave.
C14_OneCorrelationKey ==
    /\ pc = "done" /\ http.status = "ok" =>
          /\ http.result_key # ""
          /\ http.result_key = XmlResultKey
    /\ result.body_sent # NoJsonBody =>
          /\ result.body_sent.request_id = http.result_key
          /\ result.body_sent.request_id = XmlResultKey

\* C14 witness: the client's result_key was blank; a generated key went
\* out in the XML body, in the JSON fallback body and to the client
C14_Witness ==
    /\ pc = "done" /\ http.status = "ok" /\ payload.result_key = "  "
    /\ result.body_sent # NoJsonBody
    /\ Len(http.result_key) > Len("rk--")
    /\ result.body_sent.request_id = http.result_key

\* positions of the input items whose question resolves to no key
Unresolved == {i \in DOMAIN payload.questionAnswers :
                  resolve_q_key(mapping, QuestionOf(payload.questionAnswers[i])) = ""}

\* positions of the input items that stand for no key at all
Unkeyed == {i \in DOMAIN payload.questionAnswers :
               AssignedKey(payload.questionAnswers, i) = ""}

\* C15 as stated: an item whose question resolves to no key gives no pair;
\* with such an item in the input, extraction fails with Unknown question
\* exactly when the catalog does not allow unknown questions.
C15_UnknownByCatalogFlag ==
    pc # "recv" =>
        /\ verror = "" => Len(normalized) = Len(payload.questionAnswers) - Cardinality(Unresolved)
        /\ verror = "Unknown question" <=> Unresolved # {} /\ ~mapping.allow_unknown

\* C15 amended: an item that stands for no key (its question does not
\* resolve and its position is not below the number of required keys)
\* gives no pair, every other item gives one; with such an item in the
\* input, extraction fails with Unknown question exactly when neither the
\* catalog's allow-unknown flag nor ACCEPT_PARTIAL is set.
C15_UnkeyedDroppedOrRefused ==
    pc # "recv" =>
        /\ verror = "" => Len(normalized) = Len(payload.questionAnswers) - Cardinality(Unkeyed)
        /\ verror = "Unknown question"
              <=> Unkeyed # {} /\ ~(mapping.allow_unknown \/ ACCEPT_PARTIAL)

\* C15 witness: the catalog does not allow unknown questions, ACCEPT_PARTIAL
\* is set, and an item asking "zzz" behind the required keys was dropped
C15_Witness ==
    /\ pc # "recv" /\ verror = "" /\ ~mapping.allow_unknown /\ ACCEPT_PARTIAL
    /\ \E i \in Unkeyed : payload.questionAnswers[i].question = "zzz"
    /\ Len(normalized) = Len(payload.questionAnswers) - 1

\* the option labels _normalize_freeform can return for a question key
EmittedLabels(q_key) ==
    CASE q_key = "q1_purchasing_for" -> {"Self", "Others"}
      [] q_key = "q2_gender" -> {"Female", "Male"}
      [] q_key = "q4_occasion" -> {"Wedding", "Engagement", "Daily wear", "Party"}
      [] q_key = "q5_purpose" ->
            {"Daily wear", "Gifting", "Wedding", "Engagement", "Occasional wear"}
      [] q_key = "q6_day" -> {"Busy With a lot of Activities", "Relaxed & Easy-going"}
      [] q_key = "q7_weekend" -> {"Going out & socialising", "Staying in & relaxing"}
      [] q_key = "q8_work_dress" ->
            {"Stylish & Chic: Designer Clothing", "Classic Formal", "Smart Casuals"}
      [] q_key = "q9_line" ->
            {"You prefer to be on your own", "You like to chat with people around"}
      [] q_key = "q10_painting" ->
            {"You value the meaning of the art & origin", "You value the colors & aesthetics"}
      [] q_key = "q11_emergency" ->
            {"You will arrange care for your mother & attend the meeting",
             "You will stay with your mother", "You will attend the meeting"}
      [] q_key = "q13_last_minute_plans" ->
            {"You dislike last-minute plans & prefer planning ahead",
             "You enjoy spontaneous last-minute plans"}
      [] OTHER -> {}

\* C17: an answer that already is an option label the free-text normalizer
\* emits for its question comes out of normalization as that same label.
C17_CanonicalAnswersKept ==
    pc # "recv" /\ verror = "" =>
        \A i \in DOMAIN payload.questionAnswers :
            LET k == AssignedKey(payload.questionAnswers, i)
                a == payload.questionAnswers[i].answer
            IN  k # "" /\ a \in EmittedLabels(k) =>
                    \E j \in DOMAIN normalized :
                        normalized[j].key = k /\ normalized[j].answer_text = a

\* a step in which the xml_first_try branch handles a create response
\* answered < 400, and the same for the json_fallback branch
XmlCreateHandled ==
    pc = "xml_create" /\ xml_first_try'.kind = "status" /\ xml_first_try'.status_code < 400
JsonCreateHandled ==
    /\ pc = "json_create" /\ pc' # "json_create"
    /\ result'.kind \notin {"json_rejected", "json_transport_error"}

\* the create response body such a step handled
HandledBody == IF result'.kind = "backend_raw" THEN result'.body ELSE create_json'

\* the step does with body b what outcome o says
CreateAgrees(o, b) ==
    IF o.kind = "poll"
    THEN /\ Polling' /\ rid' = o.rid /\ last' = NoLast
         /\ deadline' = clock' + BACKEND_TIMEOUT_S * 1000
         /\ result' = result
    ELSE /\ pc' = "done" /\ rid' = rid
         /\ result'.kind = o.kind /\ result'.body = b /\ result'.polling_with = ""

\* a step of a poll loop in which a fetch response arrived
PollFetched == Polling /\ clock < deadline /\ result'.kind # "raised"

\* the step does with the response it fetched what outcome o says
PollAgrees(o) ==
    /\ fetchIds' = fetchIds \cup {rid}
    /\ last' = IF o.error THEN [status_code |-> resp'.code, body |-> resp'.body] ELSE last
    /\ IF o.kind = "sleep"
       THEN /\ pc' = pc /\ wait' = o.wait
            /\ \E d \in Latencies : clock' = clock + d + o.wait
       ELSE /\ pc' = "done" /\ wait' = wait
            /\ result'.kind = o.kind /\ result'.body = resp'.body
            /\ result'.polling_with = "response_id" /\ result'.id = rid

\* C16: the two paths handle a create response and run the poll loop alike:
\* every step the XML-first path takes on a create response or a fetch
\* response is the step the JSON-fallback code takes on that response with
\* the same id, clock and `last`, and the other way round; both leave a
\* loop whose deadline has passed with the same Timeout.  Only the path
\* label of what is returned differs.
C16_PathsAgree ==
    [][ /\ XmlCreateHandled => CreateAgrees(JsonCreateOutcome(HandledBody), HandledBody)
        /\ JsonCreateHandled => CreateAgrees(XmlCreateOutcome(HandledBody), HandledBody)
        /\ pc = "xml_poll" /\ PollFetched => PollAgrees(JsonPollOutcome(resp'))
        /\ pc = "json_poll" /\ PollFetched => PollAgrees(XmlPollOutcome(resp'))
        /\ Polling /\ clock >= deadline =>
              /\ result'.kind = "backend_fetch_timeout" /\ result'.last = last
              /\ result'.polling_with = "response_id" /\ result'.id = rid
        /\ pc' = "done" /\ pc \in {"xml_create", "xml_poll"} /\ result'.kind # "raised" =>
              result'.path = "xml_first_try"
        /\ pc' = "done" /\ pc \in {"json_create", "json_poll"} /\ result'.kind # "raised" =>
              result'.path = "json_fallback"
      ]_vars

\* C16 witness: after a refused XML create the fallback path got an id,
\* slept between fetches and returned the final payload it polled
C16_Witness ==
    /\ pc = "done" /\ result.path = "json_fallback" /\ xml_first_try.status_code >= 400
    /\ result.kind = "backend_final" /\ result.polling_with = "response_id"
    /\ wait > 0 /\ result.id = rid /\ rid # ""

====
